---- MODULE Spec2Model ----
(***************************************************************************)
(* Model of src/scraper.py: the static page walker (scrape_static), the    *)
(* browser-driven page walker (scrape_dynamic), the JSON fetcher           *)
(* (scrape_api) and the orchestrator (run_scraper).                        *)
(*                                                                         *)
(* The web site, the browser and the HTTP endpoint are the environment:    *)
(* their answers are chosen nondeterministically from small sets.          *)
(***************************************************************************)
EXTENDS Integers, Sequences, FiniteSets, TLC

\* ------------------------------------------------------------------ bounds
MaxLimit == 2
MaxColors == 2
MaxSizes == 2
MaxTriggerFaults == 1
MaxRetries == 3
MaxSites == 2

\* ------------------------------------------------------ program constants
DefaultLimit == 5
DefaultRetries == 3
SheetNameLimit == 31

\* ----------------------------------------------------------------- values
\* A Python value held in a record: None, a string (a sequence of
\* one-character strings) or a list of values.
Null == [k |-> "null", s |-> <<>>, l |-> <<>>]
Str(chars) == [k |-> "str", s |-> chars, l |-> <<>>]
List(items) == [k |-> "list", s |-> <<>>, l |-> items]

\* Python truthiness of a value: None, "" and [] are false.
Truthy(v) == \/ (v.k = "str" /\ v.s # <<>>)
             \/ (v.k = "list" /\ v.l # <<>>)

IsSpace(c) == c = " "

RECURSIVE LStrip(_)
LStrip(chars) ==
    IF chars # <<>> /\ IsSpace(Head(chars)) THEN LStrip(Tail(chars)) ELSE chars

RECURSIVE RStrip(_)
RStrip(chars) ==
    IF chars # <<>> /\ IsSpace(chars[Len(chars)])
    THEN RStrip(SubSeq(chars, 1, Len(chars) - 1))
    ELSE chars

\* str.strip() / get_text(strip=True) on the text of one element
Strip(chars) == RStrip(LStrip(chars))

\* str.lower() on the field names the configurations use
Lower(name) ==
    CASE name = "Images" -> "images"
      [] name = "Chrome" -> "chrome"
      [] OTHER -> name

\* f with key n set to v (dict item assignment)
SetKey(f, n, v) == [x \in (DOMAIN f) \cup {n} |-> IF x = n THEN v ELSE f[x]]

EmptyDict == [x \in {} |-> Null]

NonEmpty(chars) == chars # <<>>

\* ------------------------------------------------------------ environment
\* The site: page p of the site carries, for every configured field, the
\* elements its selector matches.  What a selector matches is fixed per site
\* by its shape; the texts depend on the page so that pages are told apart.
Letters == <<"A", "B", "C", "D", "E">>
Letter(p) == IF p \in 1..Len(Letters) THEN Letters[p] ELSE "Z"

\* An element: its text, whether it is or contains an img, and the src
\* attribute of that img (None when there is none).
El(text, img, src) == [text |-> text, img |-> img, src |-> src]

\* "raise": the selector is one the browser rejects (find_elements raises);
\* the static parser is only given selectors it accepts.
Shapes == {"none", "blank", "one", "many", "mixed"}
DynShapes == {"none", "blank", "one", "many", "raise"}

PageElements(shape, p) ==
    CASE shape = "none"  -> <<>>
      [] shape = "blank" -> <<El(<<" ">>, FALSE, Null)>>
      [] shape = "one"   -> <<El(<<" ", Letter(p)>>, TRUE, Str(<<"u", Letter(p)>>))>>
      [] shape = "many"  -> <<El(<<Letter(p), " ">>, TRUE, Str(<<"u", Letter(p)>>)),
                              El(<<"x">>, TRUE, Null)>>
      [] shape = "mixed" -> <<El(<<" ">>, TRUE, Str(<<"v">>)),
                              El(<<Letter(p)>>, TRUE, Str(<<"u", Letter(p)>>))>>
      [] OTHER           -> <<>>

\* The links of the site: every page links forward and back to the first page.
SiteLinks(p) == {p + 1, 1}

TriggerNames == {"color_variation", "size_variation"}

\* --------------------------------------------------------------- variables
VARIABLES
    fn,                  \* the function being executed
    pc,                  \* its position
    selectors,           \* parameter: the field names of the selectors dict, in order
    pagination_selector, \* parameter: TRUE when a pagination selector is given
    limit,               \* parameter
    browser,             \* parameter of scrape_dynamic
    dom,                 \* environment: field name -> shape of what its selector matches
    ncolors,             \* environment: elements color_variation matches on a page
    nsizes,              \* environment: elements size_variation matches on a page
    results,             \* local: the list of records
    current_url,         \* local: the page to visit, 0 for None
    pages_scraped,       \* local
    outcome,             \* "running", "returned" or "raised"
    fetched,             \* history: the pages requested (static) or navigated to (dynamic)
    failed,              \* history: the fetch (static) or the ready wait (dynamic)
                         \* of the last page of fetched failed
    tags,                \* history: for each record of results, where it comes from
    driver,              \* the browser session: "none", "open" or "quit"
    quits,               \* history: number of driver.quit() calls
    usedAfterQuit,       \* history: a session operation ran on a session not open
    pending,             \* what leaves the try block: "none", "return" or "raise"
    color_elements,      \* local: element numbers, 0 for the None placeholder
    size_elements,       \* local
    color_idx,           \* local: position in color_elements (from 1)
    size_idx,            \* local: position in size_elements (from 1)
    staleC,              \* environment: color elements that are stale
    staleS,              \* environment: size elements that are stale
    faults,              \* environment: trigger outcomes other than the nominal one so far
    trig,                \* history: what the last trigger did to the page
    trigFails,           \* history: the triggers that failed on this page, as
                         \* <<color position, size position>>, 0 for the color itself
    retries,             \* parameter of scrape_api
    json_path,           \* parameter of scrape_api: a sequence of keys
    attempt,             \* local of scrape_api
    response,            \* local of scrape_api: the JSON body of the response
    ret,                 \* the value scrape_api returns
    events,              \* history: the requests and sleeps of scrape_api, in order
    apiFails,            \* history: attempts that ended in a RequestException
    run_pc,              \* position of run_scraper, "idle" when it is not running
    configs,             \* the sites of the configuration file, in order
    idx,                 \* local of run_scraper: index of the site (from 0)
    writer,              \* the tabular sink: "none", "open" or "closed"
    sheets,              \* the sheets written, in order
    visited,             \* history: the indexes of the sites whose processing began
    run_outcome,         \* "running", "returned" or "raised"
    loaded               \* history: the configuration file was read and parsed:
                         \* "yes", "no", or "pending" before the attempt

\* the parameters of a call and the site it is made on
callVars == <<fn, selectors, pagination_selector, limit, browser, dom, ncolors, nsizes>>

\* the state both walkers have
walkVars == <<pc, results, current_url, pages_scraped, outcome, fetched, failed, tags>>

\* the session of scrape_dynamic
sessionVars == <<driver, quits, usedAfterQuit, pending>>

\* the variation enumeration of scrape_dynamic
enumVars == <<color_elements, size_elements, color_idx, size_idx, staleC, staleS,
              faults, trig, trigFails>>

\* scrape_api
apiVars == <<retries, json_path, attempt, response, ret, events, apiFails>>

\* run_scraper
runVars == <<run_pc, configs, idx, writer, sheets, visited, run_outcome, loaded>>

vars == <<callVars, walkVars, sessionVars, enumVars, apiVars, runVars>>

Range(q) == {q[i] : i \in 1..Len(q)}

\* The locals of scrape_dynamic while another function runs.
DynIdle ==
    /\ browser = "chrome" /\ ncolors = 0 /\ nsizes = 0
    /\ driver = "none" /\ quits = 0
    /\ usedAfterQuit = FALSE /\ pending = "none"
    /\ color_elements = <<>> /\ size_elements = <<>>
    /\ color_idx = 0 /\ size_idx = 0
    /\ staleC = {} /\ staleS = {}
    /\ faults = 0 /\ trig = "none" /\ trigFails = {}

\* JSON values: null (Python None), a string, a dict (a function from keys to
\* values) or a list.
JNull == [t |-> "null", m |-> <<>>, l |-> <<>>]
JStr == [t |-> "str", m |-> <<>>, l |-> <<>>]
JDict(m) == [t |-> "dict", m |-> m, l |-> <<>>]
JList(l) == [t |-> "list", m |-> <<>>, l |-> l]

\* The locals of scrape_api while another function runs.
ApiIdle ==
    /\ retries = 0 /\ json_path = <<>> /\ attempt = 0
    /\ response = JNull /\ ret = JNull /\ events = <<>> /\ apiFails = 0

\* run_scraper is not running.
RunIdle ==
    /\ run_pc = "idle" /\ configs = <<>> /\ idx = 0 /\ writer = "none"
    /\ sheets = <<>> /\ visited = <<>> /\ run_outcome = "running"
    /\ loaded = "pending"

\* The origin of a record: the position of its page in the walk, the page, and
\* the color and size elements chosen (-1 for a base record, 0 for the
\* placeholder of an axis).
Tag(n, p, c, z) == [page |-> n, url |-> p, c |-> c, s |-> z]

\* (mutant) the page counter is not compared with limit
LoopCondition_NoLimit(url, n, lim) == url # 0

\* while current_url and pages_scraped < limit
LoopCondition(url, n, lim) == url # 0 /\ n < lim

\* ------------------------------------------------------------ scrape_static
ReservedNames == {"images", "colors", "sizes"}

\* The value scrape_static stores for one field, given the matched elements.
StaticValue(name, elements) ==
    IF elements = <<>> THEN Null
    ELSE IF Lower(name) \in ReservedNames
    THEN List([i \in 1..Len(elements) |->
                 IF Lower(name) = "images" THEN elements[i].src
                 ELSE Str(Strip(elements[i].text))])
    ELSE LET stripped == [i \in 1..Len(elements) |-> Strip(elements[i].text)]
             texts == SelectSeq(stripped, NonEmpty)
         IN  IF Len(texts) > 1 THEN List([i \in 1..Len(texts) |-> Str(texts[i])])
             ELSE IF texts # <<>> THEN Str(texts[1])
             ELSE Null

\* The data dict built by the loop over selectors.items() on page p.
RECURSIVE StaticData(_, _, _)
StaticData(names, d, p) ==
    IF names = <<>> THEN EmptyDict
    ELSE LET rest == StaticData(SubSeq(names, 1, Len(names) - 1), d, p)
             name == names[Len(names)]
         IN  SetKey(rest, name, StaticValue(name, PageElements(d[name], p)))

StaticAnyDataFound(names, d, p) ==
    \E i \in 1..Len(names) : PageElements(d[names[i]], p) # <<>>

\* while current_url and pages_scraped < limit: requests.get succeeds
StaticFetch ==
    /\ fn = "static" /\ pc = "loop"
    /\ LoopCondition(current_url, pages_scraped, limit)
    /\ fetched' = Append(fetched, current_url)
    /\ failed' = FALSE
    /\ pc' = "extract"
    /\ UNCHANGED <<results, current_url, pages_scraped, outcome, tags>>
    /\ UNCHANGED <<callVars, sessionVars, enumVars>>
    /\ UNCHANGED apiVars
    /\ UNCHANGED runVars

\* (mutant) a failed fetch is tried again instead of ending the loop
StaticFetchFail_Retries ==
    /\ fn = "static" /\ pc = "loop"
    /\ LoopCondition(current_url, pages_scraped, limit)
    /\ Len(fetched) <= limit
    /\ fetched' = Append(fetched, current_url)
    /\ failed' = TRUE
    /\ pc' = "loop"
    /\ UNCHANGED <<results, current_url, pages_scraped, outcome, tags>>
    /\ UNCHANGED <<callVars, sessionVars, enumVars>>
    /\ UNCHANGED apiVars
    /\ UNCHANGED runVars

\* requests.get or raise_for_status raises RequestException: break, return results
StaticFetchFail ==
    /\ fn = "static" /\ pc = "loop"
    /\ LoopCondition(current_url, pages_scraped, limit)
    /\ fetched' = Append(fetched, current_url)
    /\ failed' = TRUE
    /\ pc' = "done"
    /\ outcome' = "returned"
    /\ UNCHANGED <<results, current_url, pages_scraped, tags>>
    /\ UNCHANGED <<callVars, sessionVars, enumVars>>
    /\ UNCHANGED apiVars
    /\ UNCHANGED runVars

\* (mutant) the record of a page is put in front of the list
StaticExtract_Prepends ==
    /\ fn = "static" /\ pc = "extract"
    /\ IF StaticAnyDataFound(selectors, dom, current_url)
       THEN /\ results' = <<StaticData(selectors, dom, current_url)>> \o results
            /\ tags' = <<Tag(Len(fetched), current_url, -1, -1)>> \o tags
       ELSE UNCHANGED <<results, tags>>
    /\ pc' = "paginate"
    /\ UNCHANGED <<current_url, pages_scraped, outcome, fetched, failed>>
    /\ UNCHANGED <<callVars, sessionVars, enumVars>>
    /\ UNCHANGED apiVars
    /\ UNCHANGED runVars

\* parse, extract every field, append the record if any selector matched
StaticExtract ==
    /\ fn = "static" /\ pc = "extract"
    /\ IF StaticAnyDataFound(selectors, dom, current_url)
       THEN /\ results' = Append(results, StaticData(selectors, dom, current_url))
            /\ tags' = Append(tags, Tag(Len(fetched), current_url, -1, -1))
       ELSE UNCHANGED <<results, tags>>
    /\ pc' = "paginate"
    /\ UNCHANGED <<current_url, pages_scraped, outcome, fetched, failed>>
    /\ UNCHANGED <<callVars, sessionVars, enumVars>>
    /\ UNCHANGED apiVars
    /\ UNCHANGED runVars

\* What select_one(pagination_selector) finds: no element, or an element whose
\* href is missing or empty (0) or leads to page href.
NextLinks(p) ==
    [found : {FALSE}, href : {0}] \cup [found : {TRUE}, href : {0} \cup SiteLinks(p)]

\* (mutant) the page counter is not incremented
StaticPaginate_NoCount ==
    /\ fn = "static" /\ pc = "paginate"
    /\ \E next_page \in NextLinks(current_url) :
          current_url' = IF pagination_selector /\ next_page.found /\ next_page.href # 0
                         THEN next_page.href ELSE 0
    /\ pc' = "loop"
    /\ UNCHANGED <<results, pages_scraped, outcome, fetched, failed, tags>>
    /\ UNCHANGED <<callVars, sessionVars, enumVars>>
    /\ UNCHANGED apiVars
    /\ UNCHANGED runVars

\* next current_url, then pages_scraped += 1
StaticPaginate ==
    /\ fn = "static" /\ pc = "paginate"
    /\ \E next_page \in NextLinks(current_url) :
          current_url' = IF pagination_selector /\ next_page.found /\ next_page.href # 0
                         THEN next_page.href ELSE 0
    /\ pages_scraped' = pages_scraped + 1
    /\ pc' = "loop"
    /\ UNCHANGED <<results, outcome, fetched, failed, tags>>
    /\ UNCHANGED <<callVars, sessionVars, enumVars>>
    /\ UNCHANGED apiVars
    /\ UNCHANGED runVars

\* the while condition is false: return results
StaticReturn ==
    /\ fn = "static" /\ pc = "loop"
    /\ ~LoopCondition(current_url, pages_scraped, limit)
    /\ pc' = "done"
    /\ outcome' = "returned"
    /\ UNCHANGED <<results, current_url, pages_scraped, fetched, failed, tags>>
    /\ UNCHANGED <<callVars, sessionVars, enumVars>>
    /\ UNCHANGED apiVars
    /\ UNCHANGED runVars

StaticSelectorSets == {<<"title">>, <<"title", "Images">>}

\* The locals of a walker at its first statement.
WalkStart ==
    /\ results = <<>>
    /\ current_url = 1
    /\ pages_scraped = 0
    /\ outcome = "running"
    /\ fetched = <<>>
    /\ failed = FALSE
    /\ tags = <<>>

InitStatic ==
    /\ fn = "static" /\ pc = "loop"
    /\ selectors \in StaticSelectorSets
    /\ dom \in [Range(selectors) -> Shapes]
    /\ pagination_selector \in BOOLEAN
    /\ limit \in 0..MaxLimit
    /\ WalkStart
    /\ DynIdle
    /\ ApiIdle
    /\ RunIdle

NextStatic ==
    \/ StaticFetch
    \/ StaticFetchFail
    \/ StaticExtract
    \/ StaticPaginate
    \/ StaticReturn

SpecStatic == InitStatic /\ [][NextStatic]_vars

\* ----------------------------------------------------------------- get_driver
SupportedBrowsers == {"chrome", "firefox", "safari"}

\* get_driver returns a session when the browser is a supported one and the
\* webdriver starts (started); otherwise it logs and re-raises.
GetDriverReturns(b, started) == Lower(b) \in SupportedBrowsers /\ started

\* ----------------------------------------------------------- scrape_dynamic
\* The label texts of the trigger elements, as the page shows them.
ColorText(i) == <<" ", "c", Letter(i)>>
SizeText(j) == <<"s", Letter(j), " ">>
NA == <<"N", "/", "A">>

\* The value scrape_dynamic stores for one field (base and variation
\* extraction use the same code).
DynValue(name, shape, p) ==
    IF shape = "raise" THEN Null
    ELSE LET elements == PageElements(shape, p)
             stripped == [i \in 1..Len(elements) |-> Strip(elements[i].text)]
             texts == SelectSeq(stripped, NonEmpty)
             srcs == SelectSeq([i \in 1..Len(elements) |-> elements[i].src], Truthy)
         IN  IF elements = <<>> THEN Null
             ELSE IF Lower(name) = "images"
             THEN IF \E i \in 1..Len(elements) : ~elements[i].img
                  THEN Null
                  ELSE List(srcs)
             ELSE IF Lower(name) \in {"colors", "sizes"}
             THEN List([i \in 1..Len(texts) |-> Str(texts[i])])
             ELSE IF texts # <<>> THEN Str(texts[1]) ELSE Null

\* (mutant) a field whose extraction raises is left out of the dict
RECURSIVE DynData_DropsFailed(_, _, _, _)
DynData_DropsFailed(names, d, p, seed) ==
    IF names = <<>> THEN seed
    ELSE LET rest == DynData_DropsFailed(SubSeq(names, 1, Len(names) - 1), d, p, seed)
             name == names[Len(names)]
         IN  IF name \in TriggerNames \/ d[name] = "raise" THEN rest
             ELSE SetKey(rest, name, DynValue(name, d[name], p))

\* The dict built by the loop over selectors.items(), starting from seed.
RECURSIVE DynData(_, _, _, _)
DynData(names, d, p, seed) ==
    IF names = <<>> THEN seed
    ELSE LET rest == DynData(SubSeq(names, 1, Len(names) - 1), d, p, seed)
             name == names[Len(names)]
         IN  IF name \in TriggerNames THEN rest
             ELSE SetKey(rest, name, DynValue(name, d[name], p))

DynAnyDataFound(names, d, p) ==
    \E i \in 1..Len(names) :
        /\ names[i] \notin TriggerNames
        /\ d[names[i]] # "raise"
        /\ PageElements(d[names[i]], p) # <<>>

\* var_data as first built: the two labels
VarSeed(color_el, size_el) ==
    SetKey(SetKey(EmptyDict, "variation_color",
                  IF color_el # 0 THEN Str(Strip(ColorText(color_el))) ELSE Str(NA)),
           "variation_size",
           IF size_el # 0 THEN Str(Strip(SizeText(size_el))) ELSE Str(NA))

\* What a click on a trigger element does to the page:
\*   "raise"   execute_script raises
\*   "inplace" the page updates in place; the element stays attached
\*   "blink"   the element is detached and attached again
\*   "gone"    the element is detached for good
\*   "reload"  the page reloads; every element found before is stale
ClickOutcomes(stale, f) ==
    IF stale THEN {"raise"}
    ELSE IF f < MaxTriggerFaults THEN {"raise", "inplace", "blink", "gone", "reload"}
    ELSE {"blink"}

Detached(o) == o \in {"blink", "gone", "reload"}
MarkerPresent(o) == o \in {"inplace", "blink", "gone", "reload"}

\* WebDriverWait(driver, 5).until(EC.staleness_of(el) or EC.presence_of_...):
\* the "or" of two condition objects is the first of them.
TriggerWait(detached, marker) == detached

\* the try block of a trigger: the click, then the wait
TriggerSucceeds(o) == o # "raise" /\ TriggerWait(Detached(o), MarkerPresent(o))

FaultCost(stale, o) == IF stale \/ o = "blink" THEN 0 ELSE 1

\* the elements that are stale after outcome o of a click on element e
StaleAfter(stale, all, e, o, own) ==
    CASE o = "reload" -> all \ {0}
      [] o = "gone" /\ own -> stale \cup {e}
      [] OTHER -> stale

\* a session operation
DriverUse == usedAfterQuit' = (usedAfterQuit \/ driver # "open")

\* (mutant) an exception leaves the function without the finally clause
RaiseInTry_SkipsFinally == pc' = "done" /\ pending' = "raise"

\* an exception raised inside the try block: the finally clause runs, then
\* the exception goes on
RaiseInTry == pc' = "finally" /\ pending' = "raise"

HasColorSelector == "color_variation" \in Range(selectors)
HasSizeSelector == "size_variation" \in Range(selectors)

\* driver = get_driver(browser), outside the try block
DynGetDriver ==
    /\ fn = "dynamic" /\ pc = "start"
    /\ \E started \in BOOLEAN :
         IF GetDriverReturns(browser, started)
         THEN /\ driver' = "open" /\ pc' = "loop"
              /\ UNCHANGED outcome
         ELSE /\ driver' = driver /\ pc' = "done"
              /\ outcome' = "raised"
    /\ UNCHANGED <<results, current_url, pages_scraped, fetched, failed, tags>>
    /\ UNCHANGED <<quits, usedAfterQuit, pending>>
    /\ UNCHANGED <<callVars, enumVars>>
    /\ UNCHANGED apiVars
    /\ UNCHANGED runVars

\* while current_url and pages_scraped < limit: driver.get(current_url)
DynNavigate ==
    /\ fn = "dynamic" /\ pc = "loop"
    /\ LoopCondition(current_url, pages_scraped, limit)
    /\ DriverUse
    /\ fetched' = Append(fetched, current_url)
    /\ \E ok \in BOOLEAN :
         IF ok THEN pc' = "wait" /\ UNCHANGED pending
         ELSE RaiseInTry
    /\ UNCHANGED <<results, current_url, pages_scraped, outcome, failed, tags>>
    /\ UNCHANGED <<driver, quits>>
    /\ UNCHANGED <<callVars, enumVars>>
    /\ UNCHANGED apiVars
    /\ UNCHANGED runVars

\* the while condition is false: leave the try block normally
DynLoopExit ==
    /\ fn = "dynamic" /\ pc = "loop"
    /\ ~LoopCondition(current_url, pages_scraped, limit)
    /\ pc' = "finally" /\ pending' = "return"
    /\ UNCHANGED <<results, current_url, pages_scraped, outcome, fetched, failed, tags>>
    /\ UNCHANGED <<driver, quits, usedAfterQuit>>
    /\ UNCHANGED <<callVars, enumVars>>
    /\ UNCHANGED apiVars
    /\ UNCHANGED runVars

\* (mutant) a timeout of the ready wait is logged and the page is scraped all
\* the same
DynWaitReady_GoesOnAfterTimeout ==
    /\ fn = "dynamic" /\ pc = "wait"
    /\ DriverUse
    /\ \E ok \in BOOLEAN :
         IF ok THEN pc' = "base" /\ UNCHANGED <<pending, failed>>
         ELSE pc' = "base" /\ UNCHANGED pending /\ failed' = TRUE
    /\ UNCHANGED <<results, current_url, pages_scraped, outcome, fetched, tags>>
    /\ UNCHANGED <<driver, quits>>
    /\ UNCHANGED <<callVars, enumVars>>
    /\ UNCHANGED apiVars
    /\ UNCHANGED runVars

\* WebDriverWait(driver, 10).until(presence of the ready marker); break on timeout
DynWaitReady ==
    /\ fn = "dynamic" /\ pc = "wait"
    /\ DriverUse
    /\ \E ok \in BOOLEAN :
         IF ok THEN pc' = "base" /\ UNCHANGED <<pending, failed>>
         ELSE pc' = "finally" /\ pending' = "return" /\ failed' = TRUE
    /\ UNCHANGED <<results, current_url, pages_scraped, outcome, fetched, tags>>
    /\ UNCHANGED <<driver, quits>>
    /\ UNCHANGED <<callVars, enumVars>>
    /\ UNCHANGED apiVars
    /\ UNCHANGED runVars

\* base data without variations
DynBase ==
    /\ fn = "dynamic" /\ pc = "base"
    /\ DriverUse
    /\ IF DynAnyDataFound(selectors, dom, current_url)
       THEN /\ results' = Append(results,
                                 DynData(selectors, dom, current_url, EmptyDict))
            /\ tags' = Append(tags, Tag(Len(fetched), current_url, -1, -1))
       ELSE UNCHANGED <<results, tags>>
    /\ pc' = "variations"
    /\ UNCHANGED <<current_url, pages_scraped, outcome, fetched, failed>>
    /\ UNCHANGED <<driver, quits, pending>>
    /\ UNCHANGED <<callVars, enumVars>>
    /\ UNCHANGED apiVars
    /\ UNCHANGED runVars

\* if color_variation_selector or size_variation_selector: find the elements
DynFindVariations ==
    /\ fn = "dynamic" /\ pc = "variations"
    /\ IF HasColorSelector \/ HasSizeSelector
       THEN /\ DriverUse
            /\ \E ok \in BOOLEAN :
                 IF ok
                 THEN /\ color_elements' = IF HasColorSelector
                                           THEN [i \in 1..ncolors |-> i] ELSE <<0>>
                      /\ size_elements' = IF HasSizeSelector
                                          THEN [j \in 1..nsizes |-> j] ELSE <<0>>
                      /\ color_idx' = 1
                      /\ pc' = "color"
                      /\ UNCHANGED pending
                 ELSE /\ RaiseInTry
                      /\ UNCHANGED <<color_elements, size_elements, color_idx>>
       ELSE /\ pc' = "paginate"
            /\ UNCHANGED <<usedAfterQuit, pending, color_elements, size_elements,
                           color_idx>>
    /\ UNCHANGED <<results, current_url, pages_scraped, outcome, fetched, failed, tags>>
    /\ UNCHANGED <<driver, quits>>
    /\ UNCHANGED <<size_idx, staleC, staleS, faults, trig, trigFails>>
    /\ UNCHANGED callVars
    /\ UNCHANGED apiVars
    /\ UNCHANGED runVars

\* for color_idx, color_el in enumerate(color_elements): click and wait
DynColor ==
    /\ fn = "dynamic" /\ pc = "color"
    /\ IF color_idx > Len(color_elements)
       THEN /\ pc' = "paginate"
            /\ UNCHANGED <<usedAfterQuit, color_idx, size_idx, staleC, staleS,
                           faults, trig, trigFails>>
       ELSE LET color_el == color_elements[color_idx] IN
            IF color_el = 0
            THEN /\ pc' = "size" /\ size_idx' = 1
                 /\ UNCHANGED <<usedAfterQuit, color_idx, staleC, staleS, faults,
                                trig, trigFails>>
            ELSE /\ DriverUse
                 /\ \E o \in ClickOutcomes(color_el \in staleC, faults) :
                      /\ trig' = o
                      /\ faults' = faults + FaultCost(color_el \in staleC, o)
                      /\ staleC' = StaleAfter(staleC, Range(color_elements),
                                              color_el, o, TRUE)
                      /\ staleS' = StaleAfter(staleS, Range(size_elements),
                                              color_el, o, FALSE)
                      /\ IF TriggerSucceeds(o)
                         THEN /\ pc' = "size" /\ size_idx' = 1
                              /\ UNCHANGED <<color_idx, trigFails>>
                         ELSE /\ pc' = "color" /\ color_idx' = color_idx + 1
                              /\ trigFails' = trigFails \cup {<<color_idx, 0>>}
                              /\ UNCHANGED size_idx
    /\ UNCHANGED <<results, current_url, pages_scraped, outcome, fetched, failed, tags>>
    /\ UNCHANGED <<driver, quits, pending>>
    /\ UNCHANGED <<color_elements, size_elements>>
    /\ UNCHANGED callVars
    /\ UNCHANGED apiVars
    /\ UNCHANGED runVars

\* (mutant) a size trigger that fails ends the sizes of that color
DynSize_FailureEndsColor ==
    /\ fn = "dynamic" /\ pc = "size"
    /\ IF size_idx > Len(size_elements)
       THEN /\ pc' = "color" /\ color_idx' = color_idx + 1 /\ size_idx' = 0
            /\ UNCHANGED <<usedAfterQuit, staleC, staleS, faults, trig, trigFails>>
       ELSE LET size_el == size_elements[size_idx] IN
            IF size_el = 0
            THEN /\ pc' = "record"
                 /\ UNCHANGED <<usedAfterQuit, color_idx, size_idx, staleC, staleS,
                                faults, trig, trigFails>>
            ELSE /\ DriverUse
                 /\ \E o \in ClickOutcomes(size_el \in staleS, faults) :
                      /\ trig' = o
                      /\ faults' = faults + FaultCost(size_el \in staleS, o)
                      /\ staleS' = StaleAfter(staleS, Range(size_elements),
                                              size_el, o, TRUE)
                      /\ staleC' = StaleAfter(staleC, Range(color_elements),
                                              size_el, o, FALSE)
                      /\ IF TriggerSucceeds(o)
                         THEN /\ pc' = "record"
                              /\ UNCHANGED <<color_idx, size_idx, trigFails>>
                         ELSE /\ pc' = "color" /\ color_idx' = color_idx + 1
                              /\ size_idx' = 0
                              /\ trigFails' = trigFails \cup {<<color_idx, size_idx>>}
    /\ UNCHANGED <<results, current_url, pages_scraped, outcome, fetched, failed, tags>>
    /\ UNCHANGED <<driver, quits, pending>>
    /\ UNCHANGED <<color_elements, size_elements>>
    /\ UNCHANGED callVars
    /\ UNCHANGED apiVars
    /\ UNCHANGED runVars

\* for size_idx, size_el in enumerate(size_elements): click and wait
DynSize ==
    /\ fn = "dynamic" /\ pc = "size"
    /\ IF size_idx > Len(size_elements)
       THEN /\ pc' = "color" /\ color_idx' = color_idx + 1 /\ size_idx' = 0
            /\ UNCHANGED <<usedAfterQuit, staleC, staleS, faults, trig, trigFails>>
       ELSE LET size_el == size_elements[size_idx] IN
            IF size_el = 0
            THEN /\ pc' = "record"
                 /\ UNCHANGED <<usedAfterQuit, color_idx, size_idx, staleC, staleS,
                                faults, trig, trigFails>>
            ELSE /\ DriverUse
                 /\ \E o \in ClickOutcomes(size_el \in staleS, faults) :
                      /\ trig' = o
                      /\ faults' = faults + FaultCost(size_el \in staleS, o)
                      /\ staleS' = StaleAfter(staleS, Range(size_elements),
                                              size_el, o, TRUE)
                      /\ staleC' = StaleAfter(staleC, Range(color_elements),
                                              size_el, o, FALSE)
                      /\ IF TriggerSucceeds(o)
                         THEN /\ pc' = "record"
                              /\ UNCHANGED <<size_idx, trigFails>>
                         ELSE /\ pc' = "size" /\ size_idx' = size_idx + 1
                              /\ trigFails' = trigFails \cup {<<color_idx, size_idx>>}
                 /\ UNCHANGED color_idx
    /\ UNCHANGED <<results, current_url, pages_scraped, outcome, fetched, failed, tags>>
    /\ UNCHANGED <<driver, quits, pending>>
    /\ UNCHANGED <<color_elements, size_elements>>
    /\ UNCHANGED callVars
    /\ UNCHANGED apiVars
    /\ UNCHANGED runVars

\* var_data seeded with the two labels, then the extraction; append if any
DynRecord ==
    /\ fn = "dynamic" /\ pc = "record"
    /\ DriverUse
    /\ LET color_el == color_elements[color_idx]
           size_el == size_elements[size_idx]
       IN  IF \/ (color_el # 0 /\ color_el \in staleC)
              \/ (size_el # 0 /\ size_el \in staleS)
           THEN /\ RaiseInTry
                /\ UNCHANGED <<results, tags, size_idx>>
           ELSE /\ IF DynAnyDataFound(selectors, dom, current_url)
                   THEN /\ results' = Append(results,
                                             DynData(selectors, dom, current_url,
                                                     VarSeed(color_el, size_el)))
                        /\ tags' = Append(tags, Tag(Len(fetched), current_url,
                                                    color_el, size_el))
                   ELSE UNCHANGED <<results, tags>>
                /\ pc' = "size" /\ size_idx' = size_idx + 1
                /\ UNCHANGED pending
    /\ UNCHANGED <<current_url, pages_scraped, outcome, fetched, failed>>
    /\ UNCHANGED <<driver, quits>>
    /\ UNCHANGED <<color_elements, size_elements, color_idx, staleC, staleS, faults,
                   trig, trigFails>>
    /\ UNCHANGED callVars
    /\ UNCHANGED apiVars
    /\ UNCHANGED runVars

\* if pagination_selector: find the next button, click it, wait for the URL to
\* change; then pages_scraped += 1
DynPaginate ==
    /\ fn = "dynamic" /\ pc = "paginate"
    /\ IF pagination_selector
       THEN /\ DriverUse
            /\ \E next_url \in {0} \cup (SiteLinks(current_url) \ {current_url}) :
                 current_url' = next_url
       ELSE /\ current_url' = 0
            /\ UNCHANGED usedAfterQuit
    /\ pages_scraped' = pages_scraped + 1
    /\ pc' = "loop"
    /\ color_elements' = <<>> /\ size_elements' = <<>>
    /\ color_idx' = 0 /\ size_idx' = 0
    /\ staleC' = {} /\ staleS' = {}
    /\ trig' = "none" /\ trigFails' = {}
    /\ UNCHANGED <<results, outcome, fetched, failed, tags>>
    /\ UNCHANGED <<driver, quits, pending>>
    /\ UNCHANGED faults
    /\ UNCHANGED callVars
    /\ UNCHANGED apiVars
    /\ UNCHANGED runVars

\* finally: driver.quit(); then return results or let the exception go on
DynFinally ==
    /\ fn = "dynamic" /\ pc = "finally"
    /\ DriverUse
    /\ driver' = "quit"
    /\ quits' = quits + 1
    /\ outcome' = IF pending = "raise" THEN "raised" ELSE "returned"
    /\ pc' = "done"
    /\ UNCHANGED <<results, current_url, pages_scraped, fetched, failed, tags>>
    /\ UNCHANGED pending
    /\ UNCHANGED <<callVars, enumVars>>
    /\ UNCHANGED apiVars
    /\ UNCHANGED runVars

DynSelectorSets ==
    {<<"title">>,
     <<"title", "color_variation">>, <<"Images", "size_variation", "title">>,
     <<"color_variation", "title", "size_variation">>}

FieldNames(names) == Range(names) \ TriggerNames

InitDynamic ==
    /\ fn = "dynamic" /\ pc = "start"
    /\ selectors \in DynSelectorSets
    /\ dom \in [FieldNames(selectors) -> DynShapes]
    /\ pagination_selector \in BOOLEAN
    /\ limit \in 0..MaxLimit
    /\ browser \in {"Chrome", "opera"}
    /\ ncolors \in IF HasColorSelector THEN 0..MaxColors ELSE {0}
    /\ nsizes \in IF HasSizeSelector THEN 0..MaxSizes ELSE {0}
    /\ WalkStart
    /\ driver = "none" /\ quits = 0 /\ usedAfterQuit = FALSE /\ pending = "none"
    /\ color_elements = <<>> /\ size_elements = <<>>
    /\ color_idx = 0 /\ size_idx = 0
    /\ staleC = {} /\ staleS = {}
    /\ faults = 0 /\ trig = "none" /\ trigFails = {}
    /\ ApiIdle
    /\ RunIdle

NextDynamic ==
    \/ DynGetDriver
    \/ DynNavigate
    \/ DynLoopExit
    \/ DynWaitReady
    \/ DynBase
    \/ DynFindVariations
    \/ DynColor
    \/ DynSize
    \/ DynRecord
    \/ DynPaginate
    \/ DynFinally

SpecDynamic == InitDynamic /\ [][NextDynamic]_vars

\* ------------------------------------------------------------- both walkers
SpecWalkers == (InitStatic \/ InitDynamic) /\ [][NextStatic \/ NextDynamic]_vars

\* --------------------------------------------------------------- scrape_api
\* The bodies the endpoint answers with.
Bodies ==
    {JDict("data" :> JDict("items" :> JList(<<JDict("id" :> JStr), JDict("id" :> JStr)>>))),
     JDict("data" :> JDict("name" :> JStr)),
     JDict("data" :> JNull),
     JDict("data" :> JList(<<JStr>>)),
     JList(<<>>)}

JsonPaths == {<<>>, <<"data">>, <<"data", "items">>}

\* what a step of the descent cannot go through: .get on a value that is no
\* dict (AttributeError)
JError == [t |-> "error", m |-> <<>>, l |-> <<>>]

\* for key in json_path: data = data.get(key, {})
RECURSIVE Descend(_, _)
Descend(data, path) ==
    IF path = <<>> THEN data
    ELSE IF data.t # "dict" THEN JError
    ELSE Descend(IF Head(path) \in DOMAIN data.m THEN data.m[Head(path)]
                 ELSE JDict(<<>>),
                 Tail(path))

\* return [data] if isinstance(data, dict) else data
WrapResult(data) == IF data.t = "dict" THEN JList(<<data>>) ELSE data

\* (mutant) the last attempt is taken to be the one after the last
IsFinalAttempt_OffByOne(a, r) == a = r

\* if attempt == retries - 1
IsFinalAttempt(a, r) == a = r - 1

\* for attempt in range(retries): requests.get, raise_for_status, response.json()
ApiRequest ==
    /\ fn = "api" /\ pc = "attempt"
    /\ attempt < retries
    /\ events' = Append(events, "request")
    /\ \/ \E b \in Bodies :
            /\ response' = b /\ pc' = "parse"
            /\ UNCHANGED <<outcome, apiFails>>
       \/ \* the request fails, or the body is no JSON and response.json()
          \* raises a RequestException
          /\ pc' = "except" /\ apiFails' = apiFails + 1
          /\ UNCHANGED <<response, outcome>>
       \/ \* the body is no JSON and response.json() raises a ValueError that
          \* is no RequestException
          /\ pc' = "done" /\ outcome' = "raised"
          /\ UNCHANGED <<response, apiFails>>
    /\ UNCHANGED <<results, current_url, pages_scraped, fetched, failed, tags>>
    /\ UNCHANGED <<retries, json_path, attempt, ret>>
    /\ UNCHANGED <<callVars, sessionVars, enumVars>>
    /\ UNCHANGED runVars

\* the descent through json_path and the return of the data
ApiParse ==
    /\ fn = "api" /\ pc = "parse"
    /\ LET data == Descend(response, json_path)
       IN  IF data = JError
           THEN /\ outcome' = "raised" /\ UNCHANGED ret
           ELSE /\ outcome' = "returned" /\ ret' = WrapResult(data)
    /\ pc' = "done"
    /\ UNCHANGED <<results, current_url, pages_scraped, fetched, failed, tags>>
    /\ UNCHANGED <<retries, json_path, attempt, response, events, apiFails>>
    /\ UNCHANGED <<callVars, sessionVars, enumVars>>
    /\ UNCHANGED runVars

\* except RequestException: return None after the last attempt, else sleep
ApiExcept ==
    /\ fn = "api" /\ pc = "except"
    /\ IF IsFinalAttempt(attempt, retries)
       THEN /\ ret' = JNull /\ outcome' = "returned" /\ pc' = "done"
            /\ UNCHANGED <<attempt, events>>
       ELSE /\ events' = Append(events, "sleep")
            /\ attempt' = attempt + 1
            /\ pc' = "attempt"
            /\ UNCHANGED <<ret, outcome>>
    /\ UNCHANGED <<results, current_url, pages_scraped, fetched, failed, tags>>
    /\ UNCHANGED <<retries, json_path, response, apiFails>>
    /\ UNCHANGED <<callVars, sessionVars, enumVars>>
    /\ UNCHANGED runVars

\* range(retries) is used up: the function ends without a return statement
ApiLoopEnd ==
    /\ fn = "api" /\ pc = "attempt"
    /\ ~(attempt < retries)
    /\ ret' = JNull /\ outcome' = "returned" /\ pc' = "done"
    /\ UNCHANGED <<results, current_url, pages_scraped, fetched, failed, tags>>
    /\ UNCHANGED <<retries, json_path, attempt, response, events, apiFails>>
    /\ UNCHANGED <<callVars, sessionVars, enumVars>>
    /\ UNCHANGED runVars

\* The locals of the walkers while another function runs.
WalkIdle ==
    /\ selectors = <<>> /\ dom = <<>> /\ pagination_selector = FALSE /\ limit = 0
    /\ results = <<>> /\ current_url = 0 /\ pages_scraped = 0
    /\ fetched = <<>> /\ failed = FALSE /\ tags = <<>>

InitApi ==
    /\ fn = "api" /\ pc = "attempt"
    /\ retries \in 0..MaxRetries
    /\ json_path \in JsonPaths
    /\ attempt = 0 /\ response = JNull /\ ret = JNull
    /\ events = <<>> /\ apiFails = 0
    /\ outcome = "running"
    /\ WalkIdle
    /\ DynIdle
    /\ RunIdle

NextApi ==
    \/ ApiRequest
    \/ ApiParse
    \/ ApiExcept
    \/ ApiLoopEnd

SpecApi == InitApi /\ [][NextApi]_vars

\* ------------------------------------------------- the three functions, fair
\* Each function is a sequential program: a step that can be taken is taken,
\* every request and every wait having a timeout (timeout=10 of requests.get,
\* WebDriverWait(driver, 10) and WebDriverWait(driver, 5), time.sleep(2)).
NextFunctions == NextStatic \/ NextDynamic \/ NextApi

\* What the elements of a page hold decides what a record holds, not which
\* statement comes next: the sites walked here have fields that match one
\* element or none.
PlainShapes == {"none", "one"}

InitFunctions ==
    \/ InitStatic /\ (\A n \in DOMAIN dom : dom[n] \in PlainShapes)
    \/ InitDynamic /\ (\A n \in DOMAIN dom : dom[n] \in PlainShapes)
    \/ InitApi

SpecFunctionsFair ==
    /\ InitFunctions
    /\ [][NextFunctions]_vars
    /\ WF_vars(NextFunctions)

\* --------------------------------------------------------------- run_scraper
Chars(n, c) == [i \in 1..n |-> c]

\* s[:n]
Take(q, n) == SubSeq(q, 1, IF Len(q) < n THEN Len(q) ELSE n)

\* str.replace(tok, ''), on a string given as a sequence of tokens
Remove(q, tok) == SelectSeq(q, LAMBDA c : c # tok)

\* str.split('/')[0]
RECURSIVE BeforeSlash(_)
BeforeSlash(q) ==
    IF q = <<>> \/ Head(q) = "/" THEN <<>> ELSE <<Head(q)>> \o BeforeSlash(Tail(q))

DigitChars == <<"0", "1", "2", "3", "4", "5", "6", "7", "8", "9">>

\* the decimal digits of i, as an f-string formats it
RECURSIVE ToStr(_)
ToStr(i) ==
    IF i < 10 THEN <<DigitChars[i + 1]>>
    ELSE ToStr(i \div 10) \o <<DigitChars[(i % 10) + 1]>>

\* site.get("name", f"{host}_{idx}")[:31]
SheetName(site, i) ==
    Take(IF site.hasName THEN site.name
         ELSE BeforeSlash(Remove(Remove(site.url, "https://"), "http://"))
              \o <<"_">> \o ToStr(i),
         SheetNameLimit)

\* The sites a configuration file is made of.  keys: url, type and selectors
\* are all there; limit -1, browser "" and hasJsonPath FALSE: the key is absent.
Site(keys, type, hasName, name, sels, d, lim, br, hasJp, jp, nc) ==
    [keys |-> keys, type |-> type, hasName |-> hasName, name |-> name,
     url |-> <<"https://", "x", ".", "t", "/", "p">>,
     selectors |-> sels, dom |-> d, pagination |-> FALSE, limit |-> lim,
     browser |-> br, hasJsonPath |-> hasJp, json_path |-> jp, ncolors |-> nc]

RunSites ==
    {Site(FALSE, "static", FALSE, <<>>, <<"title">>, [title |-> "one"], -1, "", FALSE, <<>>, 0),
     Site(TRUE, "ftp", FALSE, <<>>, <<"title">>, [title |-> "one"], -1, "", FALSE, <<>>, 0),
     Site(TRUE, "static", FALSE, <<>>, <<"title">>, [title |-> "none"], -1, "", FALSE, <<>>, 0),
     Site(TRUE, "static", FALSE, <<>>, <<"title">>, [title |-> "one"], -1, "", FALSE, <<>>, 0),
     Site(TRUE, "static", TRUE, <<"s">>, <<"title">>, [title |-> "many"], 1, "", FALSE, <<>>, 0),
     Site(TRUE, "static", FALSE, <<>>, <<"title", "Images">>,
          [title |-> "one", Images |-> "blank"], 1, "", FALSE, <<>>, 0),
     Site(TRUE, "dynamic", TRUE, <<"s">>, <<"title", "color_variation">>,
          [title |-> "one"], 1, "", FALSE, <<>>, 1),
     Site(TRUE, "dynamic", FALSE, <<>>, <<"title">>, [title |-> "one"], 1, "opera",
          FALSE, <<>>, 0),
     Site(TRUE, "api", FALSE, <<>>, <<>>, <<>>, -1, "", TRUE, <<"data">>, 0),
     Site(TRUE, "api", FALSE, <<>>, <<>>, <<>>, -1, "", FALSE, <<>>, 0),
     [Site(TRUE, "static", FALSE, <<>>, <<"title">>, [title |-> "one"], 1, "",
           FALSE, <<>>, 0)
      EXCEPT !.url = <<"http://">> \o Chars(SheetNameLimit, "h") \o <<"/", "p">>]}

\* The call of function f with the given arguments, on the given site: the
\* state at its first statement ("none": no call, the state between calls).
Call(f, sels, pag, lim, br, d, nc, ns, jp, r) ==
    /\ fn' = f
    /\ pc' = CASE f = "static" -> "loop"
               [] f = "dynamic" -> "start"
               [] f = "api" -> "attempt"
               [] OTHER -> "idle"
    /\ selectors' = sels /\ pagination_selector' = pag /\ limit' = lim
    /\ browser' = br /\ dom' = d /\ ncolors' = nc /\ nsizes' = ns
    /\ results' = <<>> /\ current_url' = (IF f \in {"static", "dynamic"} THEN 1 ELSE 0)
    /\ pages_scraped' = 0 /\ outcome' = "running"
    /\ fetched' = <<>> /\ failed' = FALSE /\ tags' = <<>>
    /\ driver' = "none" /\ quits' = 0 /\ usedAfterQuit' = FALSE /\ pending' = "none"
    /\ color_elements' = <<>> /\ size_elements' = <<>>
    /\ color_idx' = 0 /\ size_idx' = 0 /\ staleC' = {} /\ staleS' = {}
    /\ faults' = 0 /\ trig' = "none" /\ trigFails' = {}
    /\ retries' = r /\ json_path' = jp /\ attempt' = 0
    /\ response' = JNull /\ ret' = JNull /\ events' = <<>> /\ apiFails' = 0

NoCall == Call("none", <<>>, FALSE, 0, "chrome", <<>>, 0, 0, <<>>, 0)

\* all(key in site for key in ["url", "type", "selectors"])
HasRequiredKeys(site) == site.keys

\* site.get("limit", 5)
SiteLimit(site) == IF site.limit = -1 THEN DefaultLimit ELSE site.limit

\* site.get("browser", "chrome")
SiteBrowser(site) == IF site.browser = "" THEN "chrome" ELSE site.browser

\* (mutant) a configuration that cannot be loaded is logged and the run goes on
RunLoadConfig_GoesOn ==
    /\ run_pc = "load"
    /\ \E ok \in BOOLEAN :
         /\ loaded' = (IF ok THEN "yes" ELSE "no")
         /\ run_pc' = "sites" /\ writer' = "open"
         /\ UNCHANGED run_outcome
    /\ UNCHANGED <<configs, idx, sheets, visited>>
    /\ UNCHANGED <<callVars, walkVars, sessionVars, enumVars, apiVars>>

\* with open(config_file) ...: json.load; then the writer is opened
RunLoadConfig ==
    /\ run_pc = "load"
    /\ \E ok \in BOOLEAN :
         /\ loaded' = (IF ok THEN "yes" ELSE "no")
         /\ IF ok
            THEN /\ run_pc' = "sites" /\ writer' = "open"
                 /\ UNCHANGED run_outcome
            ELSE /\ run_pc' = "done" /\ run_outcome' = "returned"
                 /\ UNCHANGED writer
    /\ UNCHANGED <<configs, idx, sheets, visited>>
    /\ UNCHANGED <<callVars, walkVars, sessionVars, enumVars, apiVars>>

\* for idx, site in enumerate(...): the checks and the dispatch by type
RunNextSite ==
    /\ run_pc = "sites" /\ idx < Len(configs)
    /\ visited' = Append(visited, idx)
    /\ LET site == configs[idx + 1] IN
       IF ~HasRequiredKeys(site) \/ site.type \notin {"static", "dynamic", "api"}
       THEN /\ idx' = idx + 1
            /\ UNCHANGED run_pc
            /\ UNCHANGED <<callVars, walkVars, sessionVars, enumVars, apiVars>>
       ELSE IF site.type = "api" /\ ~site.hasJsonPath
       THEN \* site["json_path"] raises KeyError
            /\ run_pc' = "exit" /\ outcome' = "raised"
            /\ UNCHANGED idx
            /\ UNCHANGED <<pc, results, current_url, pages_scraped, fetched,
                           failed, tags>>
            /\ UNCHANGED <<callVars, sessionVars, enumVars, apiVars>>
       ELSE /\ run_pc' = "call"
            /\ UNCHANGED idx
            /\ Call(site.type, site.selectors, site.pagination, SiteLimit(site),
                    SiteBrowser(site), site.dom, site.ncolors, 0,
                    site.json_path, DefaultRetries)
    /\ UNCHANGED <<configs, writer, sheets, run_outcome, loaded>>

\* the value the function called has returned
CallData == IF fn = "api" THEN ret ELSE List(results)

\* if data: (a list that is not empty)
DataTruthy(data) ==
    IF fn = "api" THEN data.t = "list" /\ data.l # <<>> ELSE data.l # <<>>

\* df.empty: no row has a column
DfEmpty(data) ==
    \A i \in 1..Len(data.l) :
        IF fn = "api" THEN data.l[i].t = "dict" /\ DOMAIN data.l[i].m = {}
        ELSE DOMAIN data.l[i] = {}

\* ", ".join(x) raises TypeError: some cell is a list with an item that is
\* no string
JoinRaises(data) ==
    \E i \in 1..Len(data.l) :
        IF fn = "api"
        THEN /\ data.l[i].t = "dict"
             /\ \E key \in DOMAIN data.l[i].m :
                  LET cell == data.l[i].m[key]
                  IN  cell.t = "list" /\ \E j \in 1..Len(cell.l) : cell.l[j].t # "str"
        ELSE \E key \in DOMAIN data.l[i] :
                  LET cell == data.l[i][key]
                  IN  cell.k = "list" /\ \E j \in 1..Len(cell.l) : cell.l[j].k # "str"

\* the called function is over: its exception goes on, or its data is written
\* to a sheet
RunCollect ==
    /\ run_pc = "call" /\ pc = "done"
    /\ IF outcome = "raised"
       THEN /\ run_pc' = "exit"
            /\ UNCHANGED <<idx, sheets>>
            /\ UNCHANGED <<callVars, walkVars, sessionVars, enumVars, apiVars>>
       ELSE LET data == CallData IN
            IF DataTruthy(data) /\ ~DfEmpty(data) /\ JoinRaises(data)
            THEN /\ run_pc' = "exit" /\ outcome' = "raised"
                 /\ UNCHANGED <<idx, sheets>>
                 /\ UNCHANGED <<pc, results, current_url, pages_scraped, fetched,
                                failed, tags>>
                 /\ UNCHANGED <<callVars, sessionVars, enumVars, apiVars>>
            ELSE /\ sheets' = IF DataTruthy(data) /\ ~DfEmpty(data)
                              THEN Append(sheets, [name |-> SheetName(configs[idx + 1], idx),
                                                   site |-> idx,
                                                   rows |-> Len(data.l)])
                              ELSE sheets
                 /\ idx' = idx + 1
                 /\ run_pc' = "sites"
                 /\ NoCall
    /\ UNCHANGED <<configs, writer, visited, run_outcome, loaded>>

\* the loop over the sites is over
RunLoopEnd ==
    /\ run_pc = "sites" /\ ~(idx < Len(configs))
    /\ run_pc' = "exit"
    /\ UNCHANGED <<configs, idx, writer, sheets, visited, run_outcome, loaded>>
    /\ UNCHANGED <<callVars, walkVars, sessionVars, enumVars, apiVars>>

\* the with block is left: the writer saves and closes, the exception of a
\* site, if any, goes on; the engine refuses to save a workbook without sheet
RunExit ==
    /\ run_pc = "exit"
    /\ writer' = "closed"
    /\ run_outcome' = IF outcome = "raised" \/ sheets = <<>> THEN "raised"
                      ELSE "returned"
    /\ run_pc' = "done"
    /\ UNCHANGED <<configs, idx, sheets, visited, loaded>>
    /\ UNCHANGED <<callVars, walkVars, sessionVars, enumVars, apiVars>>

RECURSIVE SeqsUpTo(_, _)
SeqsUpTo(S, n) ==
    IF n = 0 THEN {<<>>}
    ELSE LET shorter == SeqsUpTo(S, n - 1)
         IN  shorter \cup {Append(q, x) : q \in shorter, x \in S}

InitRun ==
    /\ run_pc = "load"
    /\ configs \in SeqsUpTo(RunSites, MaxSites)
    /\ idx = 0 /\ writer = "none" /\ sheets = <<>> /\ visited = <<>>
    /\ run_outcome = "running" /\ loaded = "pending"
    /\ fn = "none" /\ pc = "idle" /\ outcome = "running"
    /\ browser = "chrome" /\ ncolors = 0 /\ nsizes = 0
    /\ WalkIdle
    /\ driver = "none" /\ quits = 0 /\ usedAfterQuit = FALSE /\ pending = "none"
    /\ color_elements = <<>> /\ size_elements = <<>>
    /\ color_idx = 0 /\ size_idx = 0 /\ staleC = {} /\ staleS = {}
    /\ faults = 0 /\ trig = "none" /\ trigFails = {}
    /\ ApiIdle

\* run_scraper calls scrape_api with the default retries, so that its loop
\* never runs out of attempts without a return.
NextRun ==
    \/ RunLoadConfig
    \/ RunNextSite
    \/ RunCollect
    \/ RunLoopEnd
    \/ RunExit
    \/ NextStatic
    \/ NextDynamic
    \/ ApiRequest
    \/ ApiParse
    \/ ApiExcept

SpecRun == InitRun /\ [][NextRun]_vars

\* ------------------------------------------------------------------ claims
SeedKeys == {"variation_color", "variation_size"}

\* the trimmed non-empty texts of what a selector of the given shape matches
NonEmptyTexts(shape, p) ==
    LET elements == PageElements(shape, p)
    IN  SelectSeq([i \in 1..Len(elements) |-> Strip(elements[i].text)], NonEmpty)

\* C1: every record of the result list has at least one configured (non-seed)
\* field whose value is not null.
C1_NoAllNullRecord ==
    \A i \in 1..Len(results) :
        \E n \in (DOMAIN results[i]) \ SeedKeys : results[i][n] # Null

\* the <<color, size>> pairs of the variation records of the n-th page, in
\* the order of the result list
RECURSIVE Combos(_, _)
Combos(ts, n) ==
    IF ts = <<>> THEN <<>>
    ELSE IF Head(ts).page = n /\ Head(ts).c # -1
    THEN <<(<<Head(ts).c, Head(ts).s>>)>> \o Combos(Tail(ts), n)
    ELSE Combos(Tail(ts), n)

BaseCount(ts, n) == Cardinality({i \in 1..Len(ts) : ts[i].page = n /\ ts[i].c = -1})

\* all pairs of 1..m and 1..n, color-major, size-minor
ColorMajor(m, n) ==
    [k \in 1..(m * n) |-> <<((k - 1) \div n) + 1, ((k - 1) % n) + 1>>]

\* the variation enumeration of the current page is over: it ran to its end,
\* or an exception ended it
EnumerationOver ==
    \/ pc = "paginate"
    \/ (pc = "finally" /\ pending = "raise" /\ color_idx >= 1)

\* the extraction of the current page yields a value for some field
ExtractionFindsData ==
    \E n \in DOMAIN dom : DynValue(n, dom[n], current_url) # Null

\* C2: on a page with m color and n size elements where no click or wait
\* fails and the extraction finds data, the page yields its base record and
\* then exactly the m*n variation records, color-major and size-minor.
C2_AllCombinationsInOrder ==
    (/\ fn = "dynamic" /\ HasColorSelector /\ HasSizeSelector
     /\ EnumerationOver
     /\ trigFails = {}
     /\ ExtractionFindsData)
    => /\ Combos(tags, Len(fetched)) = ColorMajor(ncolors, nsizes)
       /\ BaseCount(tags, Len(fetched)) = 1

\* C3: never more than limit pages are fetched or navigated to, and once a
\* page has given no next page nothing more is fetched.
C3_LimitAndStop ==
    [][/\ Len(fetched') <= limit'
       /\ (current_url = 0 => fetched' = fetched)]_vars

C3_Witness ==
    /\ outcome = "returned" /\ limit >= 2
    /\ Len(fetched) = limit /\ current_url # 0

Count(q, x) == Cardinality({i \in 1..Len(q) : q[i] = x})

\* k requests with a sleep between any two of them
Alternating(k) ==
    [i \in 1..(IF k = 0 THEN 0 ELSE 2 * k - 1) |->
        IF i % 2 = 1 THEN "request" ELSE "sleep"]

C5_StableKeys ==
    \A i \in 1..Len(results) :
        LET r == results[i]
            t == tags[i]
        IN  /\ DOMAIN r = (IF fn = "static" THEN Range(selectors)
                           ELSE IF t.c = -1 THEN FieldNames(selectors)
                           ELSE FieldNames(selectors) \cup SeedKeys)
            /\ \A n \in DOMAIN dom :
                   dom[n] \in {"none", "raise"} => (n \in DOMAIN r /\ r[n] = Null)

C5_Witness ==
    /\ fn = "dynamic"
    /\ \E i \in 1..Len(results) :
         /\ tags[i].c >= 0
         /\ \E n \in DOMAIN dom : dom[n] \in {"none", "raise"} /\ results[i][n] = Null

\* C6: a non-reserved field with exactly one (non-empty) match holds that text
\* as a scalar, and with two or more matches holds the list of all the texts
\* in document order.
C6_ScalarOrFullList ==
    \A i \in 1..Len(results) :
        \A n \in DOMAIN dom :
            (Lower(n) \notin ReservedNames /\ dom[n] # "raise") =>
                LET texts == NonEmptyTexts(dom[n], tags[i].url)
                IN  /\ Len(texts) = 1 => results[i][n] = Str(texts[1])
                    /\ Len(texts) >= 2 =>
                           results[i][n] = List([k \in 1..Len(texts) |-> Str(texts[k])])

\* C7: whatever fails inside the processing of one site, the loop goes on:
\* when run_scraper is over (the configuration having been loaded) it has not
\* raised because of a site, and the processing of every site has begun.
C7_SiteFailureIsolated ==
    (run_pc = "done" /\ writer # "none") =>
        /\ outcome # "raised"
        /\ Len(visited) = Len(configs)

\* C8: a session that was acquired is released exactly once on every way out
\* of scrape_dynamic, none is open once the call is over, and nothing is done
\* on a released session.
C8_SessionReleasedOnce ==
    fn = "dynamic" =>
        /\ quits <= 1
        /\ ~usedAfterQuit
        /\ (driver = "quit") = (quits = 1)
        /\ pc = "done" => driver # "open"
        /\ driver = "quit" => pc = "done"

C8_Witness ==
    /\ fn = "dynamic" /\ pc = "done" /\ outcome = "raised"
    /\ driver = "quit" /\ quits = 1 /\ Len(results) >= 1

\* C9: once the session is acquired, scrape_dynamic never raises.
C9_NeverRaises ==
    (fn = "dynamic" /\ driver # "none") => outcome # "raised"

\* the records scrape_static appends for the pages ps, in order
RECURSIVE StaticRecords(_, _, _)
StaticRecords(ps, names, d) ==
    IF ps = <<>> THEN <<>>
    ELSE (IF StaticAnyDataFound(names, d, Head(ps))
          THEN <<StaticData(names, d, Head(ps))>> ELSE <<>>)
         \o StaticRecords(Tail(ps), names, d)

\* C10: when the fetch of page k fails, scrape_static is over without raising,
\* nothing more is fetched, and the list returned is the records of the pages
\* 1..k-1 in order.
C10_FetchFailureKeepsPartial ==
    (fn = "static" /\ failed) =>
        /\ pc = "done" /\ outcome = "returned"
        /\ Len(fetched) = pages_scraped + 1
        /\ results = StaticRecords(SubSeq(fetched, 1, Len(fetched) - 1), selectors, dom)

C10_Witness ==
    /\ fn = "static" /\ failed /\ pc = "done"
    /\ Len(fetched) >= 2 /\ Len(results) >= 1

\* the record the walker builds for the origin t
RecordOf(t) ==
    IF fn = "static" THEN StaticData(selectors, dom, t.url)
    ELSE DynData(selectors, dom, t.url,
                 IF t.c = -1 THEN EmptyDict ELSE VarSeed(t.c, t.s))

\* the example of the walk over two pages: limit 2, one title per page, both
\* pages fetched one after the other
TwoPageWalk ==
    /\ fn = "static" /\ limit = 2 /\ pagination_selector
    /\ selectors = <<"title">> /\ dom["title"] = "one"
    /\ pc = "done" /\ pages_scraped = 2
    /\ SubSeq(fetched, 1, 2) = <<1, 2>>

\* a step leaves the list as it is or appends one record, the record of the
\* page being visited
AppendsRecordOfPage ==
    \/ results' = results /\ tags' = tags
    \/ /\ Len(tags') = Len(tags) + 1 /\ SubSeq(tags', 1, Len(tags)) = tags
       /\ tags'[Len(tags')].page = Len(fetched)
       /\ tags'[Len(tags')].url = fetched[Len(fetched)]
       /\ results' = Append(results, RecordOf(tags'[Len(tags')]))

\* along the list the page never decreases from a record to the next, and a
\* base record is the first record of its page
PageThenVariation ==
    /\ Len(tags) = Len(results)
    /\ \A i \in 1..(Len(tags) - 1) :
           /\ tags[i].page <= tags[i + 1].page
           /\ tags[i].page = tags[i + 1].page => tags[i + 1].c # -1

\* C11: the result list is in insertion order: records are only ever appended,
\* each being the record of the page visited at that moment, so that every
\* record of a page comes before every record of the next page and the base
\* record of a dynamic page before its variation records; the walk of the
\* example returns exactly the titles A and B after exactly two fetches.
C11_InsertionOrder ==
    [][(fn \in {"static", "dynamic"}) =>
          (/\ AppendsRecordOfPage
           /\ PageThenVariation'
           /\ TwoPageWalk' =>
                  /\ results' = <<[title |-> Str(<<"A">>)], [title |-> Str(<<"B">>)]>>
                  /\ Len(fetched') = 2)]_vars

C11_Witness ==
    /\ TwoPageWalk
    /\ Len(results) = 2 /\ tags[1].page = 1 /\ tags[2].page = 2

\* C12: the sheet names handed to the sink in one run are pairwise distinct,
\* and none is longer than the limit of the sink.
C12_SheetNamesDistinct ==
    \A i, j \in 1..Len(sheets) :
        /\ Len(sheets[i].name) <= SheetNameLimit
        /\ i # j => sheets[i].name # sheets[j].name

\* C12, the length alone: no sheet name is longer than the limit of the sink.
C12_SheetNamesShort ==
    \A i \in 1..Len(sheets) : Len(sheets[i].name) <= SheetNameLimit

\* a click on a trigger element has just updated the page in place: the
\* element clicked stays attached and the ready marker is present
InPlaceUpdate ==
    /\ fn = "dynamic" /\ pc \in {"color", "size"}
    /\ faults' # faults
    /\ trig' = "inplace" /\ ~Detached(trig') /\ MarkerPresent(trig')

\* C13: the wait after a trigger succeeds when the page was updated in place:
\* the trigger is not counted as failed and the enumeration goes on to the
\* sizes of that color (color trigger) or to the record (size trigger).
C13_InPlaceUpdateSucceeds ==
    [][InPlaceUpdate =>
          /\ trigFails' = trigFails
          /\ pc' = (IF pc = "color" THEN "size" ELSE "record")]_vars

\* the variation enumeration of the current page is going on or has run to
\* its end
Enumerating ==
    /\ fn = "dynamic" /\ color_elements # <<>>
    /\ pc \in {"color", "size", "record", "paginate"}

\* the enumeration has gone past position <<i, j>>
Passed(i, j) ==
    \/ pc = "paginate"
    \/ i < color_idx
    \/ (pc \in {"size", "record"} /\ i = color_idx /\ j < size_idx)

\* the combinations the enumeration has gone past whose color trigger and
\* size trigger have not failed, color-major and size-minor, as the pairs of
\* the elements chosen
PassedNotFailed ==
    LET all == ColorMajor(Len(color_elements), Len(size_elements))
        kept == SelectSeq(all, LAMBDA q : /\ Passed(q[1], q[2])
                                          /\ <<q[1], 0>> \notin trigFails
                                          /\ q \notin trigFails)
    IN  [k \in 1..Len(kept) |->
            <<color_elements[kept[k][1]], size_elements[kept[k][2]]>>]

\* a trigger fails in this step
TriggerFailure == pc \in {"color", "size"} /\ trigFails' # trigFails

ReadyTimedOut == fn = "dynamic" /\ failed'

\* C15: from the moment the ready wait of page k times out, nothing is
\* extracted or enumerated (the records stay those of the pages 1..k-1),
\* nothing is paginated or navigated to, the enumeration is not entered, and
\* the call goes through the release of the session to a return without
\* raising.
C15_ReadyTimeoutEndsWalk ==
    [][ReadyTimedOut =>
          /\ results' = results /\ tags' = tags
          /\ \A i \in 1..Len(tags') : tags'[i].page < Len(fetched')
          /\ fetched' = fetched /\ Len(fetched') = pages_scraped' + 1
          /\ current_url' = current_url /\ pages_scraped' = pages_scraped
          /\ color_elements' = <<>> /\ trig' = "none"
          /\ pc' \in {"finally", "done"} /\ pending' = "return"
          /\ outcome' = (IF pc' = "done" THEN "returned" ELSE "running")]_vars

C15_Witness ==
    /\ fn = "dynamic" /\ failed /\ pc = "done" /\ outcome = "returned"
    /\ Len(fetched) = 2 /\ Len(results) >= 2
    /\ \A i \in 1..Len(tags) : tags[i].page = 1

\* the two labels of the variation records of the n-th page, in the order of
\* the result list
RECURSIVE Labels(_, _, _)
Labels(rs, ts, n) ==
    IF ts = <<>> THEN <<>>
    ELSE IF Head(ts).page = n /\ Head(ts).c # -1
    THEN <<(<<Head(rs)["variation_color"], Head(rs)["variation_size"]>>)>>
         \o Labels(Tail(rs), Tail(ts), n)
    ELSE Labels(Tail(rs), Tail(ts), n)

\* the elements of an axis on a page: none when its selector is not configured
ColorCount == IF HasColorSelector THEN ncolors ELSE 0
SizeCount == IF HasSizeSelector THEN nsizes ELSE 0

\* one record per element of the axis that has elements, the other label
\* being the placeholder
PlaceholderLabels ==
    IF ColorCount = 0
    THEN [j \in 1..SizeCount |-> <<Str(NA), Str(Strip(SizeText(j)))>>]
    ELSE [i \in 1..ColorCount |-> <<Str(Strip(ColorText(i))), Str(NA)>>]

\* the enumeration of the current page ran to its end with no trigger failure,
\* on a page whose extraction finds data
EnumeratedWithoutFailure ==
    /\ fn = "dynamic" /\ pc = "paginate"
    /\ trigFails = {} /\ ExtractionFindsData

\* C16: with a trigger selector configured, an axis without elements (not
\* configured, or configured and matching nothing) counts as one placeholder:
\* the n elements of the other axis give exactly n variation records, labelled
\* "N/A" on the empty axis and with the trimmed text of the element on the
\* other; with no trigger selector configured there is no variation record.
C16_EmptyAxisIsPlaceholder ==
    /\ (/\ EnumeratedWithoutFailure
        /\ HasColorSelector \/ HasSizeSelector
        /\ (ColorCount = 0) # (SizeCount = 0))
       => Labels(results, tags, Len(fetched)) = PlaceholderLabels
    /\ (fn = "dynamic" /\ ~HasColorSelector /\ ~HasSizeSelector)
       => \A i \in 1..Len(tags) : tags[i].c = -1

\* C16 for an axis whose selector is not configured (what the code does)
C16_UnconfiguredAxisIsPlaceholder ==
    /\ (/\ EnumeratedWithoutFailure
        /\ \/ (~HasColorSelector /\ SizeCount > 0)
           \/ (~HasSizeSelector /\ ColorCount > 0))
       => Labels(results, tags, Len(fetched)) = PlaceholderLabels
    /\ (fn = "dynamic" /\ ~HasColorSelector /\ ~HasSizeSelector)
       => \A i \in 1..Len(tags) : tags[i].c = -1

\* the site the loop of run_scraper is at is turned down by the checks: a
\* required key is missing or the type is not a supported one
SiteTurnedDown ==
    /\ run_pc = "sites" /\ idx < Len(configs)
    /\ \/ ~HasRequiredKeys(configs[idx + 1])
       \/ configs[idx + 1].type \notin {"static", "dynamic", "api"}

\* the function called for the site has returned
SiteReturned == run_pc = "call" /\ pc = "done" /\ outcome = "returned"

\* the loop goes on with the next site
NextSite == idx' = idx + 1 /\ run_pc' = "sites"

\* the sheets written are those of different sites, in configuration order
InConfigurationOrder ==
    \A i \in 1..(Len(sheets) - 1) : sheets[i].site < sheets[i + 1].site

\* a site that is turned down, or whose function returns no record, writes
\* nothing and the loop goes on with the next site
SkipsWithoutWrite ==
    (SiteTurnedDown \/ (SiteReturned /\ ~DataTruthy(CallData)))
        => (sheets' = sheets /\ NextSite)

\* a site whose function returns at least one record writes exactly one
\* sheet, and the loop goes on with the next site
WritesOneSheet ==
    (SiteReturned /\ DataTruthy(CallData))
        => /\ Len(sheets') = Len(sheets) + 1
           /\ SubSeq(sheets', 1, Len(sheets)) = sheets
           /\ sheets'[Len(sheets')].site = idx
           /\ NextSite

\* C17: a site turned down by the checks or yielding no record writes
\* nothing, the loop goes on with the next site and the run does not fail; a
\* site yielding at least one record writes exactly one sheet; the sheets are
\* written in configuration order.
C17_SkipOrOneSheetPerSite ==
    [][/\ SkipsWithoutWrite
       /\ WritesOneSheet
       /\ (run_pc = "exit" /\ outcome # "raised") => run_outcome' = "returned"
       /\ InConfigurationOrder'
      ]_vars

\* C17, the write alone: a site yielding at least one record writes exactly
\* one sheet
C17_OneSheetPerSiteWithRecords == [][WritesOneSheet]_vars

\* C17 without the write of a site that has records and without the end of
\* the run: sites turned down or without record write nothing and the loop
\* goes on; the sheets are in configuration order
C17_SkippedSitesWriteNothing ==
    [][SkipsWithoutWrite /\ InConfigurationOrder']_vars

\* C18: every call of scrape_static, scrape_dynamic and scrape_api comes to
\* its end, whatever the links of the site (a link back to a page already
\* visited included); a walker goes through its loop at most limit times and
\* scrape_api makes at most retries requests.
C18_Terminates ==
    /\ []((fn \in {"static", "dynamic"}) =>
             (pages_scraped <= limit /\ Len(fetched) <= limit))
    /\ []((fn = "api") => (attempt <= retries /\ Count(events, "request") <= retries))
    /\ <>(pc = "done")

\* a walk stopped by limit on a site whose first page links to itself
C18_Witness ==
    /\ fn = "static" /\ pc = "done" /\ outcome = "returned"
    /\ limit = 2 /\ fetched = <<1, 1>> /\ current_url = 1

\* C19: when the configuration file cannot be read or parsed the run is over
\* at once: it has returned without raising, no site was looked at, no
\* function was called and no browser session acquired, the sink was never
\* opened and holds no sheet.
C19_ConfigFailureAbortsRun ==
    loaded = "no" =>
        /\ run_pc = "done" /\ run_outcome = "returned"
        /\ visited = <<>> /\ idx = 0
        /\ fn = "none" /\ pc = "idle" /\ fetched = <<>> /\ events = <<>>
        /\ driver = "none"
        /\ writer = "none" /\ sheets = <<>>

C19_Witness ==
    /\ loaded = "no" /\ run_pc = "done" /\ run_outcome = "returned"
    /\ Len(configs) = 2 /\ HasRequiredKeys(configs[1])

====
